---- MODULE Spec2Model ----
(***************************************************************************)
(* A model of the ufw log library: the predicate algebra of                *)
(* ufw/filter_tools.py (FilterFunction, LogFilter), the log collection of  *)
(* ufw/ufw.py (UFWLogFile) and the line parser (UFWLogEntry.from_str).     *)
(*                                                                         *)
(* Five specifications share the variables:                                *)
(*   SpecAlgebra   predicates built from the preset filters and called     *)
(*   SpecFieldRef  one LogFilter object: construction, assignment, use     *)
(*   Spec          one UFWLogFile: search, indexing, iteration, release    *)
(*   SpecIndex     one UFWLogFile: __getitem__ over selector sequences     *)
(*   SpecParse     UFWLogEntry.from_str on one text line                   *)
(* Each specification leaves the variables of the others at their idle     *)
(* values.                                                                 *)
(***************************************************************************)
EXTENDS Integers, Sequences, FiniteSets, TLC

VARIABLES
    filters,     \* heap of LogFilter objects: id -> __dict__
    built,       \* id -> the attr given to LogFilter.__init__
    setres,      \* outcome of the last assignment to a LogFilter attribute
    P, Q, R,     \* FilterFunction values under evaluation
    x,           \* the value the FilterFunctions are called on
    out,         \* outcome of the last FilterFunction call
    log_events,  \* UFWLogFile.log_events
    loaded,      \* the records UFWLogFile.__init__ appended
    released,    \* number of __exit__ calls so far, capped
    ret,         \* outcome of the last UFWLogFile call
    gen,         \* the generator returned by UFWLogFile.__iter__
    rawline,     \* the text line given to UFWLogEntry.from_str
    parsed       \* outcome of the last UFWLogEntry.from_str call

vars == <<filters, built, setres, P, Q, R, x, out,
          log_events, loaded, released, ret, gen, rawline, parsed>>

fieldRefVars == <<filters, built, setres>>
fileVars == <<log_events, loaded, released, ret, gen>>
parseVars == <<rawline, parsed>>

(***************************************************************************)
(* Values                                                                  *)
(***************************************************************************)

\* Python's None, as an attribute value
None == "<None>"
\* a name __dict__ does not hold
Absent == "<absent>"
\* nothing was called yet
Idle == [op |-> "idle"]

\* port numbers the sample records carry, and the literal they are compared to
Ports == {22, 80, 25565}
Lits == {80}

\* UFWLogEntry objects, by the two attributes the sample predicates read
Events == [DPT : Ports, SPT : Ports]

(***************************************************************************)
(* ufw/filter_tools.py: LogFilter                                          *)
(***************************************************************************)

AttrNames == {"attr", "note"}

\* a fresh object: __dict__ is empty
EmptyObj == [n \in AttrNames |-> Absent]

\* bool(v) of an attribute value: None and '' are falsy, and so is the
\* default False that getattr returns for a missing attribute
Truthy(v) == v \notin {Absent, None, ""}

\* LogFilter.__setattr__'s guard: getattr(self, 'attr', False)
SetAttrGuard(obj) == Truthy(obj["attr"])

\* LogFilter.__setattr__: raises AttributeError, or writes __dict__[name]
SetAttr(obj, name, value) ==
    IF SetAttrGuard(obj)
    THEN [obj |-> obj, raised |-> TRUE]
    ELSE [obj |-> [obj EXCEPT ![name] = value], raised |-> FALSE]

\* LogFilter.__init__: self.attr = attr, through __setattr__
LogFilter(attr) == SetAttr(EmptyObj, "attr", attr).obj

\* LogFilter.__extract: the event itself when attr is None, else getattr
Extract(obj, event) ==
    IF obj["attr"] = None THEN event ELSE event[obj["attr"]]

CmpOps == {"eq", "ne", "lt", "gt", "le", "ge"}

\* the mutant: the comparison operators with their conventional meaning
CompareConventional(op, a, b) ==
    CASE op = "eq" -> a = b
      [] op = "ne" -> a # b
      [] op = "lt" -> a < b
      [] op = "gt" -> a > b
      [] op = "le" -> a <= b
      [] op = "ge" -> a >= b

\* the lambda bodies of LogFilter.__eq__ .. __ge__: a is the extracted
\* field, b the captured literal
Compare(op, a, b) ==
    CASE op = "eq" -> a = b
      [] op = "ne" -> a # b
      [] op = "lt" -> a > b
      [] op = "gt" -> a < b
      [] op = "le" -> a >= b
      [] op = "ge" -> a <= b

\* LogFilter.__eq__ .. __ge__: a FilterFunction whose lambda captures self
\* (the filter, by its id on the heap) and the literal
Cmp(op, id, value) == [kind |-> "cmp", op |-> op, self |-> id, value |-> value]

(***************************************************************************)
(* ufw/filter_tools.py: FilterFunction                                     *)
(***************************************************************************)

\* Python's  a and b  on booleans: b when a is true, else a
PyAnd(a, b) == IF a THEN b ELSE a
\* Python's  a or b  on booleans: a when a is true, else b
PyOr(a, b) == IF a THEN a ELSE b
\* Python's  not a
PyNot(a) == ~a

\* FilterFunction.__and__, __or__, __add__, __sub__: a new FilterFunction
\* whose lambda captures both operands
And(f, g) == [kind |-> "and", l |-> f, r |-> g]
Or(f, g)  == [kind |-> "or",  l |-> f, r |-> g]
Add(f, g) == [kind |-> "add", l |-> f, r |-> g]
Sub(f, g) == [kind |-> "sub", l |-> f, r |-> g]

\* the mutant: __sub__ without the negation of the right operand
CombineNoNegation(kind, a, b) ==
    CASE kind = "and" -> PyAnd(a, b)
      [] kind = "or"  -> PyOr(a, b)
      [] kind = "add" -> PyOr(a, b)
      [] kind = "sub" -> PyAnd(a, b)

\* the lambda bodies of __and__, __or__, __add__, __sub__ on the operands'
\* results
Combine(kind, a, b) ==
    CASE kind = "and" -> PyAnd(a, b)
      [] kind = "or"  -> PyOr(a, b)
      [] kind = "add" -> PyOr(a, b)
      [] kind = "sub" -> PyAnd(a, PyNot(b))

\* FilterFunction.__call__: self.func(value), on the heap of filters
RECURSIVE Call(_, _, _)
Call(f, value, heap) ==
    IF f.kind = "cmp"
    THEN Compare(f.op, Extract(heap[f.self], value), f.value)
    ELSE Combine(f.kind, Call(f.l, value, heap), Call(f.r, value, heap))

\* the lambda bodies of __and__, __or__, __add__, __sub__: whether the right
\* operand func(value) is evaluated once the left one, self.func(value),
\* has returned a;  and  goes on to its right side when the left is true,
\* or  when it is false
RightEvaluated(kind, a) ==
    CASE kind = "and" -> a
      [] kind = "or"  -> ~a
      [] kind = "add" -> ~a
      [] kind = "sub" -> a

\* FilterFunction.__call__: the predicates that a call f(value) invokes
\* below f, in the order of their invocation
RECURSIVE Invoked(_, _, _)
Invoked(f, value, heap) ==
    IF f.kind = "cmp"
    THEN <<>>
    ELSE <<f.l>> \o Invoked(f.l, value, heap)
         \o (IF RightEvaluated(f.kind, Call(f.l, value, heap))
             THEN <<f.r>> \o Invoked(f.r, value, heap)
             ELSE <<>>)

\* the module-level preset filters (DPT, SPT of the 23)
PresetNames == {"DPT", "SPT"}
Presets == [n \in PresetNames |-> LogFilter(n)]

\* the predicates  PRESET op literal
LeafPreds == {Cmp(op, n, v) : op \in CmpOps, n \in PresetNames, v \in Lits}

(***************************************************************************)
(* ufw/ufw.py: UFWLogFile                                                  *)
(***************************************************************************)

\* bounds of the collection model
MaxRecords == 2
MaxPreds == 2
MaxSelectors == 2
MaxReleases == 2

\* the UFWLogEntry objects of a file: one per line, told apart by the line
LogEntry(line, dpt) == [line |-> line, DPT |-> dpt]

\* the value of log_events after UFWLogFile.__init__, for every file of at
\* most MaxRecords lines
Loads ==
    UNION { { [i \in 1..n |-> LogEntry(i, ports[i])] : ports \in [1..n -> Ports] }
            : n \in 0..MaxRecords }

\* the predicates the collection is asked with: DPT >= 80 (true of 22 and
\* 80) and DPT <= 80 (true of 80 and 25565)
CollPreds == {Cmp("ge", "DPT", v) : v \in Lits} \cup {Cmp("le", "DPT", v) : v \in Lits}

\* sequences over S of length at most n
SeqsUpTo(S, n) == UNION { [1..k -> S] : k \in 0..n }

\* the selectors of __getitem__
IntSel(i) == [kind |-> "int", i |-> i]
SliceSel(start, stop) == [kind |-> "slice", start |-> start, stop |-> stop]
ListSel(items) == [kind |-> "list", items |-> items]

\* isinstance(v, int), isinstance(v, slice), isinstance(v, Callable),
\* isinstance(v, list), isinstance(v, Iterable)
IsInt(v) == v.kind = "int"
IsSlice(v) == v.kind = "slice"
IsCallable(v) == v.kind \in {"cmp", "and", "or", "add", "sub"}
IsList(v) == v.kind = "list"
IsIterable(v) == IsList(v)

\* the mutant: any() in place of all()
RECURSIVE AnyFns(_, _, _)
AnyFns(search_fns, event, heap) ==
    IF search_fns = <<>> THEN FALSE
    ELSE IF Call(Head(search_fns), event, heap)
         THEN TRUE
         ELSE AnyFns(Tail(search_fns), event, heap)

\* all(fn(event) for fn in search_fns): stops at the first false result
RECURSIVE AllFns(_, _, _)
AllFns(search_fns, event, heap) ==
    IF search_fns = <<>> THEN TRUE
    ELSE IF Call(Head(search_fns), event, heap)
         THEN AllFns(Tail(search_fns), event, heap)
         ELSE FALSE

\* UFWLogFile.search: the list comprehension over log_events
RECURSIVE Search(_, _, _)
Search(events, search_fns, heap) ==
    IF events = <<>> THEN <<>>
    ELSE (IF AllFns(search_fns, Head(events), heap)
          THEN <<Head(events)>> ELSE <<>>)
         \o Search(Tail(events), search_fns, heap)

\* list[i] raises IndexError
IndexRaises(events, i) == i >= Len(events) \/ i < -Len(events)

\* list[i] for an index that does not raise: a negative i counts from the end
IndexGet(events, i) == IF i < 0 THEN events[Len(events) + i + 1] ELSE events[i + 1]

\* slice.indices for one bound: a negative bound counts from the end, and
\* the result is clamped to 0..len
SliceBound(b, len) ==
    LET c == IF b < 0 THEN b + len ELSE b
    IN  IF c < 0 THEN 0 ELSE IF c > len THEN len ELSE c

\* the mutant: a slice that raises like an index does
SliceRaisesOutOfRange(events, start, stop) ==
    start >= Len(events) \/ stop > Len(events)

\* list[start:stop] never raises
SliceRaises(events, start, stop) == FALSE

\* list[start:stop]
SliceGet(events, start, stop) ==
    LET lo == SliceBound(start, Len(events))
        hi == SliceBound(stop, Len(events))
    IN  IF lo >= hi THEN <<>> ELSE SubSeq(events, lo + 1, hi)

\* every item of the list is a Callable
RECURSIVE AllCallable(_)
AllCallable(items) ==
    IF items = <<>> THEN TRUE
    ELSE IsCallable(Head(items)) /\ AllCallable(Tail(items))

\* the four ifs of __getitem__'s loop body: one index raises ...
ItemRaises(events, index) ==
    \/ IsInt(index) /\ IndexRaises(events, index.i)
    \/ IsSlice(index) /\ SliceRaises(events, index.start, index.stop)

\* ... or adds this to out
ItemAdds(events, index, heap) ==
    (IF IsInt(index) THEN <<IndexGet(events, index.i)>> ELSE <<>>)
    \o (IF IsSlice(index) THEN SliceGet(events, index.start, index.stop) ELSE <<>>)
    \o (IF IsCallable(index) THEN Search(events, <<index>>, heap) ELSE <<>>)
    \o (IF IsList(index) /\ AllCallable(index.items)
        THEN Search(events, index.items, heap) ELSE <<>>)

\* the records of more that acc does not hold yet
Unseen(acc, more) ==
    SelectSeq(more, LAMBDA e : \A k \in 1..Len(acc) : acc[k] # e)

\* the mutant: a record is added to out once only
RECURSIVE GetItemLoopOnce(_, _, _, _)
GetItemLoopOnce(events, indexes, acc, heap) ==
    IF indexes = <<>> THEN [raised |-> FALSE, result |-> acc]
    ELSE IF ItemRaises(events, Head(indexes))
         THEN [raised |-> TRUE, result |-> <<>>]
         ELSE GetItemLoopOnce(events, Tail(indexes),
                  acc \o Unseen(acc, ItemAdds(events, Head(indexes), heap)), heap)

\* __getitem__'s loop over indexes, acc being what was added to out so far
RECURSIVE GetItemLoop(_, _, _, _)
GetItemLoop(events, indexes, acc, heap) ==
    IF indexes = <<>> THEN [raised |-> FALSE, result |-> acc]
    ELSE IF ItemRaises(events, Head(indexes))
         THEN [raised |-> TRUE, result |-> <<>>]
         ELSE GetItemLoop(events, Tail(indexes),
                          acc \o ItemAdds(events, Head(indexes), heap), heap)

\* indexes if isinstance(indexes, Iterable) else [indexes]
Normalise(indexes) == IF IsIterable(indexes) THEN indexes.items ELSE <<indexes>>

\* UFWLogFile.__getitem__
GetItem(events, indexes, heap) ==
    GetItemLoop(events, Normalise(indexes), <<>>, heap)

\* the mutant: __exit__ that keeps the list
ExitKeeps(events) == events

\* UFWLogFile.__exit__: log_events becomes a new, empty list
ExitList(events) == <<>>

\* the mutant: __exit__ that clears the held list in place
IteratedListCleared(list) == <<>>

\* the list a generator is iterating, after __exit__: untouched, since
\* __exit__ rebinds log_events to a new list and leaves the old one alone
IteratedList(list) == list

(***************************************************************************)
(* ufw/ufw.py: UFWLogEntry                                                 *)
(* Text is a sequence of one-character strings.                            *)
(***************************************************************************)

\* Python values of the attributes of an entry
PyNone == [t |-> "none"]
PyStr(s) == [t |-> "str", v |-> s]
PyInt(n) == [t |-> "int", v |-> n]

\* the characters str.lstrip() removes
Whitespace == {" ", "\t", "\n", "\r"}

Digits == <<"0", "1", "2", "3", "4", "5", "6", "7", "8", "9">>

\* str.lstrip()
RECURSIVE LStrip(_)
LStrip(s) == IF s # <<>> /\ Head(s) \in Whitespace THEN LStrip(Tail(s)) ELSE s

\* str.split(sep) for a one-character sep: the pieces between the
\* occurrences of sep, empty pieces included
Split(s, sep) ==
    LET at == {i \in 1..Len(s) : s[i] = sep}
        n == Cardinality(at)
        pos(k) == IF k = 0 THEN 0
                  ELSE IF k = n + 1 THEN Len(s) + 1
                  ELSE CHOOSE i \in at : Cardinality({j \in at : j <= i}) = k
    IN  [k \in 1..(n + 1) |-> SubSeq(s, pos(k - 1) + 1, pos(k) - 1)]

\* sep.join(parts)
RECURSIVE Join(_, _)
Join(sep, parts) ==
    IF parts = <<>> THEN <<>>
    ELSE IF Len(parts) = 1 THEN Head(parts)
         ELSE Head(parts) \o sep \o Join(sep, Tail(parts))

\* sub in s
Contains(s, sub) ==
    \E i \in 1..(Len(s) - Len(sub) + 1) : SubSeq(s, i, i + Len(sub) - 1) = sub

\* the digits of s as a number
RECURSIVE ParseNat(_)
ParseNat(s) ==
    IF s = <<>> THEN 0
    ELSE 10 * ParseNat(SubSeq(s, 1, Len(s) - 1))
         + (CHOOSE d \in 0..9 : Digits[d + 1] = s[Len(s)])

IsDigits(s) == s # <<>> /\ \A i \in 1..Len(s) : \E d \in 1..10 : Digits[d] = s[i]

\* from_str, lines 87-88: when "[ " occurs, every piece between "[" loses
\* its leading whitespace
PadFix(data) ==
    IF Contains(data, <<"[", " ">>)
    THEN LET pieces == Split(data, "[")
         IN  Join(<<"[">>, [i \in 1..Len(pieces) |-> LStrip(pieces[i])])
    ELSE data

\* the mutant: the split keeps its last token
TokensKeepLast(data) == Split(PadFix(data), " ")

\* from_str, line 89: data.split(' ')[:-1]
Tokens(data) == SliceGet(Split(PadFix(data), " "), 0, -1)

MonthNames == <<<<"J", "a", "n">>, <<"F", "e", "b">>, <<"M", "a", "r">>, <<"A", "p", "r">>, <<"M", "a", "y">>, <<"J", "u", "n">>, <<"J", "u", "l">>, <<"A", "u", "g">>, <<"S", "e", "p">>, <<"O", "c", "t">>, <<"N", "o", "v">>, <<"D", "e", "c">>>>
\* days of each month of 1900, the year strptime assumes
MonthDays == <<31, 28, 31, 30, 31, 30, 31, 31, 30, 31, 30, 31>>

\* one or two digits
IsField2(s) == IsDigits(s) /\ Len(s) <= 2

\* datetime.strptime(' '.join(data[0:3]), '%b %d %H:%M:%S') accepts the
\* three tokens
StrptimeOk(toks) ==
    /\ Len(toks) = 3
    /\ \E m \in 1..12 : MonthNames[m] = toks[1]
    /\ IsField2(toks[2])
    /\ LET m == CHOOSE k \in 1..12 : MonthNames[k] = toks[1]
           d == ParseNat(toks[2])
       IN  1 <= d /\ d <= MonthDays[m]
    /\ LET hms == Split(toks[3], ":")
       IN  /\ Len(hms) = 3
           /\ \A i \in 1..3 : IsField2(hms[i])
           /\ ParseNat(hms[1]) <= 23
           /\ ParseNat(hms[2]) <= 59
           /\ ParseNat(hms[3]) <= 61

\* the datetime it returns
Strptime(toks) ==
    LET hms == Split(toks[3], ":")
    IN  [month |-> CHOOSE k \in 1..12 : MonthNames[k] = toks[1],
         day |-> ParseNat(toks[2]),
         hour |-> ParseNat(hms[1]),
         minute |-> ParseNat(hms[2]),
         second |-> ParseNat(hms[3])]

\* float(s) accepts s: digits with at most one point among them
FloatOk(s) ==
    LET parts == Split(s, ".")
    IN  /\ Len(parts) <= 2
        /\ Join(<<>>, parts) # <<>>
        /\ \A i \in 1..Len(parts) : parts[i] = <<>> \/ IsDigits(parts[i])

\* float(s): the digits, and how many of them follow the point
Float(s) ==
    LET parts == Split(s, ".")
    IN  [t |-> "float",
         digits |-> ParseNat(Join(<<>>, parts)),
         decimals |-> IF Len(parts) = 2 THEN Len(parts[2]) ELSE 0]

\* from_str, line 98: the tokens from index 8 on that hold "=", each split
\* on "="
KwargsRaw(data) ==
    LET rest == SliceGet(data, 8, Len(data))
        idx == {i \in 1..Len(rest) : Contains(rest[i], <<"=">>)}
    IN  [k \in 1..Cardinality(idx) |->
            Split(rest[CHOOSE i \in idx : Cardinality({j \in idx : j <= i}) = k], "=")]

\* from_str, line 99: "for key, value in kwargs_raw" raises ValueError when
\* a split token has not exactly two pieces
UnpackRaises(raw) == \E i \in 1..Len(raw) : Len(raw[i]) # 2

\* from_str, line 99: the dict of the pairs whose key and value are both
\* non-empty, as the sequence of its items; a later pair replaces an earlier
\* one of the same key
RECURSIVE Kwargs(_)
Kwargs(raw) ==
    IF raw = <<>> THEN <<>>
    ELSE LET pair == raw[Len(raw)]
             before == Kwargs(SubSeq(raw, 1, Len(raw) - 1))
         IN  IF pair[1] # <<>> /\ pair[2] # <<>>
             THEN SelectSeq(before, LAMBDA item : item[1] # pair[1]) \o <<pair>>
             ELSE before

\* a keyword argument, None when it was not passed
Get(kwargs, key) ==
    IF \E i \in 1..Len(kwargs) : kwargs[i][1] = key
    THEN PyStr(kwargs[CHOOSE i \in 1..Len(kwargs) : kwargs[i][1] = key][2])
    ELSE PyNone

\* the parameters from_str passes by name: a kwargs key equal to one of
\* them makes the call raise TypeError
NamedParams == {<<"e", "v", "e", "n", "t", "_", "d", "a", "t", "e", "t", "i", "m", "e">>, <<"h", "o", "s", "t", "n", "a", "m", "e">>, <<"u", "p", "t", "i", "m", "e">>, <<"e", "v", "e", "n", "t">>}

CtorTypeError(kwargs) == \E i \in 1..Len(kwargs) : kwargs[i][1] \in NamedParams

\* __init__, lines 75-76: a port given as text goes through int()
PortRaises(v) == v.t = "str" /\ ~IsDigits(v.v)
Port(v) == IF v.t = "str" THEN PyInt(ParseNat(v.v)) ELSE v

CtorValueError(kwargs) ==
    \/ PortRaises(Get(kwargs, <<"S", "P", "T">>))
    \/ PortRaises(Get(kwargs, <<"D", "P", "T">>))

\* UFWLogEntry.__init__
UFWLogEntry(event_datetime, hostname, uptime, event, kwargs, ACK, PSH) ==
    [event_datetime |-> event_datetime,
     hostname |-> hostname,
     uptime |-> uptime,
     event |-> event,
     OUT |-> Get(kwargs, <<"O", "U", "T">>),
     MAC |-> Get(kwargs, <<"M", "A", "C">>),
     SRC |-> Get(kwargs, <<"S", "R", "C">>),
     DST |-> Get(kwargs, <<"D", "S", "T">>),
     TC |-> Get(kwargs, <<"T", "C">>),
     LEN |-> Get(kwargs, <<"L", "E", "N">>),
     TOS |-> Get(kwargs, <<"T", "O", "S">>),
     PERC |-> Get(kwargs, <<"P", "E", "R", "C">>),
     TTL |-> Get(kwargs, <<"T", "T", "L">>),
     ID |-> Get(kwargs, <<"I", "D">>),
     PROTO |-> Get(kwargs, <<"P", "R", "O", "T", "O">>),
     WINDOW |-> Get(kwargs, <<"W", "I", "N", "D", "O", "W">>),
     RES |-> Get(kwargs, <<"R", "E", "S">>),
     SYN_URGP |-> Get(kwargs, <<"S", "Y", "N", "_", "U", "R", "G", "P">>),
     SPT |-> Port(Get(kwargs, <<"S", "P", "T">>)),
     DPT |-> Port(Get(kwargs, <<"D", "P", "T">>)),
     ACK |-> ACK,
     PSH |-> PSH]
    @@ ("IN" :> Get(kwargs, <<"I", "N">>))

\* the event tag: from_str, line 97
EventTag(token) == SliceGet(token, 0, -1)

\* "ACK" in data[8:], "PSH" in data[8:]
HasToken(data, token) ==
    LET rest == SliceGet(data, 8, Len(data))
    IN  \E i \in 1..Len(rest) : rest[i] = token

\* UFWLogEntry.from_str: the exception it raises, or the entry it returns
FromStr(text) ==
    LET data == Tokens(text)
        raw == KwargsRaw(data)
        kwargs == Kwargs(raw)
    IN  IF ~StrptimeOk(SliceGet(data, 0, 3))
        THEN [op |-> "from_str", raised |-> "ValueError"]
        ELSE IF Len(data) < 6
        THEN [op |-> "from_str", raised |-> "IndexError"]
        ELSE IF ~FloatOk(SliceGet(data[6], 1, -1))
        THEN [op |-> "from_str", raised |-> "ValueError"]
        ELSE IF Len(data) < 8
        THEN [op |-> "from_str", raised |-> "IndexError"]
        ELSE IF UnpackRaises(raw)
        THEN [op |-> "from_str", raised |-> "ValueError"]
        ELSE IF CtorTypeError(kwargs)
        THEN [op |-> "from_str", raised |-> "TypeError"]
        ELSE IF CtorValueError(kwargs)
        THEN [op |-> "from_str", raised |-> "ValueError"]
        ELSE [op |-> "from_str", raised |-> "",
              entry |-> UFWLogEntry(Strptime(SliceGet(data, 0, 3)),
                                    Join(<<" ">>, SliceGet(data, 3, 5)),
                                    Float(SliceGet(data[6], 1, -1)),
                                    EventTag(data[8]),
                                    kwargs,
                                    HasToken(data, <<"A", "C", "K">>),
                                    HasToken(data, <<"P", "S", "H">>))]

(***************************************************************************)
(* Idle values of each group of variables                                  *)
(***************************************************************************)

\* no generator yet.  state, list and pos are the generator's frame; yielded,
\* born_released (a release preceded __iter__) and exit_pos (how many records
\* it had yielded when the first release after __iter__ came, -1 for none)
\* record its history
NoGen == [state |-> "none", list |-> <<>>, pos |-> 0, yielded |-> <<>>,
          born_released |-> FALSE, exit_pos |-> -1]

AlgebraIdle ==
    /\ P = Idle /\ Q = Idle /\ R = Idle
    /\ x = 0
    /\ out = Idle

FieldRefIdle ==
    /\ filters = Presets
    /\ built = [n \in PresetNames |-> n]
    /\ setres = Idle

FileIdle ==
    /\ log_events = <<>>
    /\ loaded = <<>>
    /\ released = 0
    /\ ret = Idle
    /\ gen = NoGen

ParseIdle ==
    /\ rawline = <<>>
    /\ parsed = Idle

(***************************************************************************)
(* SpecAlgebra: predicates built from the preset filters, combined with    *)
(* &, |, +, - and called on an event.  The presets are bound to a name, so *)
(* no assignment changes them.                                             *)
(***************************************************************************)

InitAlgebra ==
    /\ FieldRefIdle
    /\ FileIdle
    /\ ParseIdle
    /\ P \in LeafPreds
    /\ Q \in LeafPreds
    /\ R \in LeafPreds
    /\ x \in Events
    /\ out = Idle

\* P(x)
CallP ==
    /\ out' = [op |-> "call", val |-> Call(P, x, filters)]
    /\ UNCHANGED <<P, Q, R, x>>
    /\ UNCHANGED <<fieldRefVars, fileVars, parseVars>>

\* (P & Q)(x), (P | Q)(x), (P + Q)(x), (P - Q)(x)
CallCombined ==
    /\ \E kind \in {"and", "or", "add", "sub"} :
          out' = [op |-> kind,
                  val |-> Call([kind |-> kind, l |-> P, r |-> Q], x, filters),
                  calls |-> Invoked([kind |-> kind, l |-> P, r |-> Q], x, filters)]
    /\ UNCHANGED <<P, Q, R, x>>
    /\ UNCHANGED <<fieldRefVars, fileVars, parseVars>>

\* ((P & Q) & R)(x) and (P & (Q & R))(x)
CallAndAssoc ==
    /\ out' = [op |-> "and_assoc",
               val |-> Call(And(And(P, Q), R), x, filters),
               val2 |-> Call(And(P, And(Q, R)), x, filters)]
    /\ UNCHANGED <<P, Q, R, x>>
    /\ UNCHANGED <<fieldRefVars, fileVars, parseVars>>

\* ((P | Q) | R)(x) and (P | (Q | R))(x)
CallOrAssoc ==
    /\ out' = [op |-> "or_assoc",
               val |-> Call(Or(Or(P, Q), R), x, filters),
               val2 |-> Call(Or(P, Or(Q, R)), x, filters)]
    /\ UNCHANGED <<P, Q, R, x>>
    /\ UNCHANGED <<fieldRefVars, fileVars, parseVars>>

NextAlgebra ==
    \/ CallP
    \/ CallCombined
    \/ CallAndAssoc
    \/ CallOrAssoc

SpecAlgebra == InitAlgebra /\ [][NextAlgebra]_vars

(***************************************************************************)
(* SpecFieldRef: one LogFilter object "f", constructed bound to a name or  *)
(* to None, then assigned to, compared with a literal and the resulting    *)
(* predicate called.                                                       *)
(***************************************************************************)

\* the attr values given to the constructor, and those assigned later
CtorAttrs == {None, "DPT", "SPT"}
AssignValues == {None, "DPT", "SPT"}

InitFieldRef ==
    /\ FileIdle
    /\ ParseIdle
    /\ \E a \in CtorAttrs :
          /\ filters = [k \in {"f"} |-> LogFilter(a)]
          /\ built = [k \in {"f"} |-> a]
    /\ setres = Idle
    /\ P = Idle /\ Q = Idle /\ R = Idle
    /\ x = 0
    /\ out = Idle

\* f.<name> = value
Assign ==
    \E name \in AttrNames, value \in AssignValues :
        LET r == SetAttr(filters["f"], name, value) IN
        /\ filters' = [filters EXCEPT !["f"] = r.obj]
        /\ setres' = [op |-> "setattr", name |-> name, value |-> value,
                      raised |-> r.raised]
        /\ UNCHANGED <<built, P, Q, R, x, out>>
        /\ UNCHANGED <<fileVars, parseVars>>

\* P = (f <op> literal)
BuildPredicate ==
    /\ \E op \in CmpOps, v \in Lits : P' = Cmp(op, "f", v)
    /\ UNCHANGED <<filters, built, setres, Q, R, x, out>>
    /\ UNCHANGED <<fileVars, parseVars>>

\* P(e): e is a bare port number for the whole-value binding and an event
\* for a named one
CallPredicate ==
    /\ P # Idle
    /\ \E e \in (IF filters["f"]["attr"] = None THEN Ports ELSE Events) :
          /\ x' = e
          /\ out' = [op |-> "call", val |-> Call(P, e, filters)]
    /\ UNCHANGED <<filters, built, setres, P, Q, R>>
    /\ UNCHANGED <<fileVars, parseVars>>

NextFieldRef ==
    \/ Assign
    \/ BuildPredicate
    \/ CallPredicate

SpecFieldRef == InitFieldRef /\ [][NextFieldRef]_vars

(***************************************************************************)
(* Spec: one UFWLogFile after construction, under any sequence of search,  *)
(* __getitem__, __iter__ / next, __enter__ and __exit__.                   *)
(***************************************************************************)

\* the selectors tried: positions -1..MaxRecords, slices that start at 0 or
\* 1 and stop at 1, 2 or past the end, and the predicates
IntSelectors == {IntSel(i) : i \in -1..MaxRecords}
SliceSelectors == {SliceSel(i, j) : i \in {0, 1}, j \in {1, 2, MaxRecords + 1}}
BareSelectors == IntSelectors \cup SliceSelectors \cup CollPreds

Init ==
    /\ FieldRefIdle
    /\ AlgebraIdle
    /\ ParseIdle
    /\ loaded \in Loads
    /\ log_events = loaded
    /\ released = 0
    /\ ret = Idle
    /\ gen = NoGen

\* collection.search(search_fns)
SearchCall ==
    /\ \E search_fns \in SeqsUpTo(CollPreds, MaxPreds) :
          ret' = [op |-> "search", arg |-> search_fns, held |-> log_events,
                  rel |-> released, raised |-> FALSE,
                  result |-> Search(log_events, search_fns, filters)]
    /\ UNCHANGED <<log_events, loaded, released, gen>>
    /\ UNCHANGED <<filters, built, setres, P, Q, R, x, out, rawline, parsed>>

\* collection[indexes], indexes drawn from args
GetItemCall(args) ==
    /\ \E indexes \in args :
          LET r == GetItem(log_events, indexes, filters) IN
          ret' = [op |-> "getitem", arg |-> indexes, held |-> log_events,
                  rel |-> released, raised |-> r.raised, result |-> r.result]
    /\ UNCHANGED <<log_events, loaded, released, gen>>
    /\ UNCHANGED <<filters, built, setres, P, Q, R, x, out, rawline, parsed>>

\* iter(collection): a generator whose body has not started
Iter ==
    /\ gen' = [state |-> "created", list |-> <<>>, pos |-> 0, yielded |-> <<>>,
               born_released |-> released > 0, exit_pos |-> -1]
    /\ UNCHANGED <<log_events, loaded, released, ret>>
    /\ UNCHANGED <<filters, built, setres, P, Q, R, x, out, rawline, parsed>>

\* next(generator): the first call evaluates self.log_events and starts the
\* for loop over that list; every call yields the next event or finishes
IterNext ==
    /\ gen.state \in {"created", "running"}
    /\ LET list == IF gen.state = "created" THEN log_events ELSE gen.list IN
       gen' = IF gen.pos < Len(list)
              THEN [gen EXCEPT !.state = "running", !.list = list,
                               !.pos = gen.pos + 1,
                               !.yielded = Append(gen.yielded, list[gen.pos + 1])]
              ELSE [gen EXCEPT !.state = "done", !.list = list]
    /\ UNCHANGED <<log_events, loaded, released, ret>>
    /\ UNCHANGED <<filters, built, setres, P, Q, R, x, out, rawline, parsed>>

\* collection.__enter__(): returns self
Enter ==
    /\ ret' = [op |-> "enter", raised |-> FALSE]
    /\ UNCHANGED <<log_events, loaded, released, gen>>
    /\ UNCHANGED <<filters, built, setres, P, Q, R, x, out, rawline, parsed>>

\* collection.__exit__()
Exit ==
    /\ released < MaxReleases
    /\ log_events' = ExitList(log_events)
    /\ released' = released + 1
    /\ ret' = [op |-> "exit", raised |-> FALSE]
    /\ gen' = IF gen.state \in {"created", "running"}
              THEN [gen EXCEPT !.list = IteratedList(@),
                               !.exit_pos = IF @ = -1 THEN gen.pos ELSE @]
              ELSE gen
    /\ UNCHANGED loaded
    /\ UNCHANGED <<filters, built, setres, P, Q, R, x, out, rawline, parsed>>

Next ==
    \/ SearchCall
    \/ GetItemCall(BareSelectors)
    \/ Iter
    \/ IterNext
    \/ Enter
    \/ Exit

Spec == Init /\ [][Next]_vars

(***************************************************************************)
(* SpecIndex: one UFWLogFile, indexed with a selector or a list of         *)
(* selectors; the caller drops each result before the next call.           *)
(***************************************************************************)

\* lists of predicates given as one selector: the empty list and the pairs
PredLists == {<<>>} \cup {<<a, b>> : a \in CollPreds, b \in CollPreds}
Selectors == BareSelectors \cup {ListSel(fns) : fns \in PredLists}

\* what __getitem__ is called with: one selector, or a list of at most
\* MaxSelectors selectors
IndexArgs == Selectors \cup {ListSel(sels) : sels \in SeqsUpTo(Selectors, MaxSelectors)}

InitIndex ==
    /\ FieldRefIdle
    /\ AlgebraIdle
    /\ ParseIdle
    /\ loaded \in Loads
    /\ log_events = loaded
    /\ released = 0
    /\ ret = Idle
    /\ gen = NoGen

\* collection[indexes]
IndexCall ==
    /\ ret = Idle
    /\ GetItemCall(IndexArgs)

\* the caller is done with the result
DropResult ==
    /\ ret # Idle
    /\ ret' = Idle
    /\ UNCHANGED <<log_events, loaded, released, gen>>
    /\ UNCHANGED <<filters, built, setres, P, Q, R, x, out, rawline, parsed>>

NextIndex ==
    \/ IndexCall
    \/ DropResult

SpecIndex == InitIndex /\ [][NextIndex]_vars

(***************************************************************************)
(* SpecParse: UFWLogEntry.from_str on one line of a ufw log.               *)
(***************************************************************************)

\* bounds of the lines tried
MaxPad == 2
MaxBody == 2

\* the tokens before the uptime stamp
HeadTokens == <<<<"S", "e", "p">>, <<"2", "1">>, <<"1", "0", ":", "1", "5", ":", "3", "2">>, <<"m", "y", "h", "o", "s", "t">>, <<"k", "e", "r", "n", "e", "l", ":">>>>
\* the event tag of ufw, two tokens
TagTokens == <<<<"[", "U", "F", "W">>, <<"B", "L", "O", "C", "K", "]">>>>
\* what the uptime bracket holds
UptimeTexts == {<<"1", "2", "3", ".", "4", "5">>, <<>>}
\* the tokens that follow the tag
BodyTokens ==
    {<<"I", "N", "=", "e", "t", "h", "0">>,
     <<"O", "U", "T", "=">>,
     <<"D", "P", "T", "=", "2", "5", "5", "6", "5">>,
     <<"A", "C", "K">>,
     <<"P", "S", "H">>,
     <<"L", "E", "N", "=", "a", "=", "b">>,
     <<"=", "e", "t", "h", "1">>,
     <<"D", "P", "T", "=", "x">>,
     <<"e", "v", "e", "n", "t", "=", "x">>}
\* what ends the line: nothing, the blank the kernel writes after the last
\* field, the newline readlines() keeps, or both
LineEnds == {<<>>, <<" ">>, <<"\n">>, <<" ", "\n">>}

\* n blanks
Blanks(n) == [i \in 1..n |-> " "]

\* the lines tried: the uptime stamp left-padded with up to MaxPad blanks
\* and up to MaxBody tokens after the tag
Lines ==
    { Join(<<" ">>, HeadTokens \o <<<<"[">> \o Blanks(pad) \o up \o <<"]">>>>
                    \o TagTokens \o body) \o end :
        pad \in 0..MaxPad, up \in UptimeTexts,
        body \in SeqsUpTo(BodyTokens, MaxBody), end \in LineEnds }

\* the line of the end-to-end scenario, ACK being its final token
ScenarioLine ==
    <<"S", "e", "p", " ", "2", "1", " ", "1", "0", ":", "1", "5", ":", "3",
      "2", " ", "m", "y", "h", "o", "s", "t", " ", "k", "e", "r", "n", "e",
      "l", ":", " ", "[", " ", "1", "2", "3", ".", "4", "5", "]", " ", "[",
      "U", "F", "W", " ", "B", "L", "O", "C", "K", "]", " ", "I", "N", "=",
      "e", "t", "h", "0", " ", "O", "U", "T", "=", " ", "M", "A", "C", "=",
      "a", "a", ":", "b", "b", " ", "S", "R", "C", "=", "1", ".", "2", ".",
      "3", ".", "4", " ", "D", "S", "T", "=", "5", ".", "6", ".", "7", ".",
      "8", " ", "L", "E", "N", "=", "6", "0", " ", "T", "T", "L", "=", "6",
      "4", " ", "P", "R", "O", "T", "O", "=", "T", "C", "P", " ", "S", "P",
      "T", "=", "1", "2", "3", "4", "5", " ", "D", "P", "T", "=", "2", "5",
      "5", "6", "5", " ", "A", "C", "K">>

InitParse ==
    /\ FieldRefIdle
    /\ AlgebraIdle
    /\ FileIdle
    /\ rawline \in Lines \cup {ScenarioLine}
    /\ parsed = Idle

\* UFWLogEntry.from_str(rawline)
FromStrCall ==
    /\ parsed = Idle
    /\ parsed' = FromStr(rawline)
    /\ UNCHANGED rawline
    /\ UNCHANGED <<fieldRefVars, fileVars, P, Q, R, x, out>>

NextParse == FromStrCall

SpecParse == InitParse /\ [][NextParse]_vars

(***************************************************************************)
(* Claims                                                                  *)
(***************************************************************************)

\* The records of held at the positions idx, in the order of held: the k-th
\* of them is the record at the k-th smallest position of idx.
AtPositions(held, idx) ==
    [k \in 1..Cardinality(idx) |->
        held[CHOOSE i \in idx : Cardinality({j \in idx : j <= i}) = k]]

\* every predicate of fns is true of record r
HoldsAll(fns, r) == \A k \in 1..Len(fns) : Call(fns[k], r, filters)

\* C1: search(ps) returns exactly the held records on which every predicate
\* of ps is true, in file order and each at most once; with no predicate it
\* returns every held record.
C1_SearchConjunctive ==
    ret.op = "search" =>
        LET res == ret.result
            held == ret.held
        IN  /\ ~ret.raised
            /\ \A k \in 1..Len(res) :
                  \E i \in 1..Len(held) : res[k] = held[i] /\ HoldsAll(ret.arg, held[i])
            /\ \A i \in 1..Len(held) :
                  HoldsAll(ret.arg, held[i]) =>
                      Cardinality({k \in 1..Len(res) : res[k] = held[i]}) = 1
            /\ \A k1, k2 \in 1..Len(res) : k1 < k2 => res[k1].line < res[k2].line
            /\ (ret.arg = <<>> => res = held)

\* C1's case: a search with two different predicates over two records kept
\* one record and dropped the other
C1_Witness ==
    /\ ret.op = "search"
    /\ Len(ret.arg) = 2
    /\ ret.arg[1] # ret.arg[2]
    /\ Len(ret.held) = 2
    /\ Len(ret.result) = 1

\* the argument of the call is the list of exactly two predicates [A, B]
IsPredicatePair(arg) ==
    /\ IsList(arg)
    /\ Len(arg.items) = 2
    /\ IsCallable(arg.items[1])
    /\ IsCallable(arg.items[2])

\* C2: collection[[A, B]] returns what search([A, B]) returns: exactly the
\* records on which both A and B are true, in file order, none repeated.
C2_ListIsConjunctive ==
    (ret.op = "getitem" /\ IsPredicatePair(ret.arg)) =>
        /\ ~ret.raised
        /\ ret.result = Search(ret.held, ret.arg.items, filters)
        /\ ret.result = AtPositions(ret.held,
               {i \in 1..Len(ret.held) : HoldsAll(ret.arg.items, ret.held[i])})

\* a selector C3 speaks of: an in-range position, a slice i:j with
\* 0 <= i <= j <= N, or a single predicate
Plain(sel, n) ==
    \/ IsInt(sel) /\ 0 <= sel.i /\ sel.i < n
    \/ IsSlice(sel) /\ 0 <= sel.start /\ sel.start <= sel.stop /\ sel.stop <= n
    \/ IsCallable(sel)

\* what C3 says one such selector returns
PlainResult(held, sel) ==
    IF IsInt(sel) THEN <<held[sel.i + 1]>>
    ELSE IF IsSlice(sel) THEN [k \in 1..(sel.stop - sel.start) |-> held[sel.start + k]]
    ELSE AtPositions(held, {i \in 1..Len(held) : Call(sel, held[i], filters)})

\* the concatenation of the selectors' results, in selector order
RECURSIVE Concatenated(_, _)
Concatenated(held, sels) ==
    IF sels = <<>> THEN <<>>
    ELSE PlainResult(held, Head(sels)) \o Concatenated(held, Tail(sels))

\* the selectors of an argument: the items of a list, or the one selector
SelectorsOf(arg) == IF IsList(arg) THEN arg.items ELSE <<arg>>

\* C3: an in-range position i returns the record at i, a slice i:j the
\* records i..j-1 in order, a predicate the records it is true of; a sequence
\* of selectors returns the concatenation of their results in selector
\* order, a record selected twice appearing twice.
C3_IndexedAccess ==
    (/\ ret.op = "getitem"
     /\ \A k \in 1..Len(SelectorsOf(ret.arg)) :
           Plain(SelectorsOf(ret.arg)[k], Len(ret.held))) =>
        /\ ~ret.raised
        /\ ret.result = Concatenated(ret.held, SelectorsOf(ret.arg))

\* C3's case: a position and a predicate selected the same record, which
\* the result holds twice
C3_Witness ==
    /\ ret.op = "getitem"
    /\ IsList(ret.arg)
    /\ Len(ret.arg.items) = 2
    /\ IsInt(ret.arg.items[1])
    /\ IsCallable(ret.arg.items[2])
    /\ ~ret.raised
    /\ Len(ret.result) = 2
    /\ ret.result[1] = ret.result[2]

\* C4: for boolean-valued predicates P, Q, R and an input x,
\* (P & Q)(x) is P(x) and Q(x), (P | Q)(x) is P(x) or Q(x), (P + Q)(x) is
\* (P | Q)(x), (P - Q)(x) is P(x) and not Q(x), and & and | are associative.
C4_AlgebraLaws ==
    LET p == Call(P, x, filters)
        q == Call(Q, x, filters)
    IN  /\ out.op = "and" => out.val = (p /\ q)
        /\ out.op = "or"  => out.val = (p \/ q)
        /\ out.op = "add" => out.val = Call(Or(P, Q), x, filters)
        /\ out.op = "sub" => out.val = (p /\ ~q)
        /\ out.op \in {"and_assoc", "or_assoc"} => out.val = out.val2

\* C4's case: P - Q was called where P holds and Q does not, and returned true
C4_Witness ==
    /\ out.op = "sub"
    /\ out.val = TRUE
    /\ Call(P, x, filters)
    /\ ~Call(Q, x, filters)

C6_AssignmentAlwaysFails ==
    (setres.op = "setattr" /\ setres.name = "attr") =>
        /\ setres.raised
        /\ filters["f"]["attr"] = built["f"]

\* C7: the held record sequence is the loaded one while no release has
\* happened and empty once one has, whatever searches, indexed accesses and
\* iterations were made; a release never fails, a second one included, and a
\* search or an iteration begun after a release yields no record, not an error.
C7_HeldSequence ==
    /\ log_events = IF released = 0 THEN loaded ELSE <<>>
    /\ ret.op = "exit" => ~ret.raised
    /\ (ret.op = "search" /\ ret.rel > 0) => (~ret.raised /\ ret.result = <<>>)
    /\ gen.born_released => gen.yielded = <<>>

\* C7's case: after two releases of a collection that had records, a search
\* was made and an iteration begun after the release has finished
C7_Witness ==
    /\ loaded # <<>>
    /\ released = 2
    /\ ret.op = "search"
    /\ ret.rel = 2
    /\ gen.born_released
    /\ gen.state = "done"

\* C8: an iteration obtained before a release yields every loaded record in
\* file order even when the release comes after it was obtained, be it
\* before its first record was requested or part-way through.
C8_IterationIgnoresRelease ==
    (gen.state = "done" /\ ~gen.born_released) => gen.yielded = loaded

\* C8 as amended: such an iteration yields every loaded record in file order
\* unless the release came before its first record was requested, and then
\* it yields none.
C8_IterationSeesEarlyRelease ==
    (gen.state = "done" /\ ~gen.born_released) =>
        gen.yielded = IF gen.exit_pos = 0 THEN <<>> ELSE loaded

\* C8's case: the release came after the first record and before the last,
\* and the finished iteration yielded them all
C8_Witness ==
    /\ gen.state = "done"
    /\ ~gen.born_released
    /\ gen.exit_pos >= 1
    /\ gen.exit_pos < Len(loaded)
    /\ gen.yielded = loaded

\* a position at or past the end, or a slice with a bound past the end
OutOfRange(sel, n) ==
    \/ IsInt(sel) /\ sel.i >= n
    \/ IsSlice(sel) /\ (sel.start >= n \/ sel.stop > n)

\* C9: indexed access with a position i >= N, or with a slice i:j where
\* i >= N or j > N, fails with an out-of-range error at that call.
C9_OutOfRangeFails ==
    (/\ ret.op = "getitem"
     /\ \E k \in 1..Len(SelectorsOf(ret.arg)) :
           OutOfRange(SelectorsOf(ret.arg)[k], Len(ret.held))) =>
        ret.raised

\* C9 as amended: the call fails exactly when one of its selectors is a
\* position i >= N (or i < -N); a slice never fails, and alone it returns
\* the records at those positions of i..j-1 that exist.
C9_OnlyPositionsFail ==
    ret.op = "getitem" =>
        LET sels == SelectorsOf(ret.arg)
            n == Len(ret.held)
        IN  /\ ret.raised <=>
                  \E k \in 1..Len(sels) :
                      IsInt(sels[k]) /\ (sels[k].i >= n \/ sels[k].i < -n)
            /\ IsSlice(ret.arg) =>
                  ret.result = AtPositions(ret.held,
                      {i \in 1..n : ret.arg.start < i /\ i <= ret.arg.stop})

\* C9's case: a slice that starts inside the records and stops past the end
\* returned the records from its start on
C9_Witness ==
    /\ ret.op = "getitem"
    /\ IsSlice(ret.arg)
    /\ ret.arg.start < Len(ret.held)
    /\ ret.arg.stop > Len(ret.held)
    /\ ~ret.raised
    /\ ret.result # <<>>

\* C10: parsing the scenario line succeeds and yields dstPort = 25565 as an
\* integer, ack = true, psh = false, inInterface = "eth0", outInterface
\* absent and event = "[UFW BLOCK]".
C10_ScenarioAsStated ==
    (rawline = ScenarioLine /\ parsed.op = "from_str") =>
        /\ parsed.raised = ""
        /\ parsed.entry.DPT = PyInt(25565)
        /\ parsed.entry.ACK = TRUE
        /\ parsed.entry.PSH = FALSE
        /\ parsed.entry["IN"] = PyStr(<<"e", "t", "h", "0">>)
        /\ parsed.entry.OUT = PyNone
        /\ parsed.entry.event = <<"[", "U", "F", "W", " ", "B", "L", "O", "C", "K", "]">>

\* C10 as amended: parsing the scenario line succeeds and yields dstPort =
\* 25565 as an integer, ack = false (ACK, the final token, is dropped),
\* psh = false, inInterface = "eth0", outInterface absent and
\* event = "BLOCK" (token 7 without its last character).
C10_ScenarioAsParsed ==
    (rawline = ScenarioLine /\ parsed.op = "from_str") =>
        /\ parsed.raised = ""
        /\ parsed.entry.DPT = PyInt(25565)
        /\ parsed.entry.ACK = FALSE
        /\ parsed.entry.PSH = FALSE
        /\ parsed.entry["IN"] = PyStr(<<"e", "t", "h", "0">>)
        /\ parsed.entry.OUT = PyNone
        /\ parsed.entry.event = <<"B", "L", "O", "C", "K">>

\* C10's case: the scenario line was parsed and an entry returned
C10_Witness ==
    /\ rawline = ScenarioLine
    /\ parsed.op = "from_str"
    /\ parsed.raised = ""
    /\ parsed.entry.hostname = <<"m", "y", "h", "o", "s", "t", " ", "k", "e", "r", "n", "e", "l", ":">>

\* tokens 0-7 of a line are well formed: a date, a host, an uptime stamp
\* and the two tokens of the tag
HeadWellFormed(data) ==
    /\ Len(data) >= 8
    /\ StrptimeOk(SliceGet(data, 0, 3))
    /\ FloatOk(SliceGet(data[6], 1, -1))

\* a token cut at its first "=": the text before it and all the text after
CutAtFirstEquals(token) ==
    LET i == CHOOSE k \in 1..Len(token) :
                 token[k] = "=" /\ \A j \in 1..(k - 1) : token[j] # "="
    IN  <<SubSeq(token, 1, i - 1), SubSeq(token, i + 1, Len(token))>>

\* the pairs of the tokens from index 8 on that hold "=", each cut at its
\* first "=", kept when key and value are non-empty, a later pair replacing
\* an earlier one of the same key
RetainedAtFirstEquals(data) ==
    LET rest == SliceGet(data, 8, Len(data))
        idx == {i \in 1..Len(rest) : Contains(rest[i], <<"=">>)}
    IN  Kwargs([k \in 1..Cardinality(idx) |->
            CutAtFirstEquals(
                rest[CHOOSE i \in idx : Cardinality({j \in idx : j <= i}) = k])])

\* C11: for every line whose tokens 0-7 are well formed, the parser does not
\* fail, and every token at index 8 or later that holds "=", one that holds
\* more than one "=" included, gives one key (the text before the first "=")
\* and one value (all the text after it), kept iff both are non-empty; a
\* token with an empty value leaves its field absent.
C11_SplitOnFirstEquals ==
    (parsed.op = "from_str" /\ HeadWellFormed(Tokens(rawline))) =>
        /\ parsed.raised = ""
        /\ LET kept == RetainedAtFirstEquals(Tokens(rawline))
           IN  /\ parsed.entry["IN"] = Get(kept, <<"I", "N">>)
               /\ parsed.entry.OUT = Get(kept, <<"O", "U", "T">>)
               /\ parsed.entry.LEN = Get(kept, <<"L", "E", "N">>)
               /\ parsed.entry.DPT = Port(Get(kept, <<"D", "P", "T">>))

\* C11's case: a line with a well-formed head and a token of two "=" was
\* parsed
C11_TwoEqualsParsed ==
    /\ parsed.op = "from_str"
    /\ HeadWellFormed(Tokens(rawline))
    /\ \E i \in 9..Len(Tokens(rawline)) :
           Tokens(rawline)[i] = <<"L", "E", "N", "=", "a", "=", "b">>

\* C11 where the parse returns an entry: its fields are the pairs cut at
\* the first "=" whose key and value are both non-empty
C11_OneEqualsRetained ==
    (parsed.op = "from_str" /\ HeadWellFormed(Tokens(rawline))
        /\ parsed.raised = "") =>
        LET kept == RetainedAtFirstEquals(Tokens(rawline))
        IN  /\ parsed.entry["IN"] = Get(kept, <<"I", "N">>)
            /\ parsed.entry.OUT = Get(kept, <<"O", "U", "T">>)
            /\ parsed.entry.LEN = Get(kept, <<"L", "E", "N">>)
            /\ parsed.entry.DPT = Port(Get(kept, <<"D", "P", "T">>))

\* C12: for predicates P and Q combined with AND or with OR, every call of
\* the combined predicate on x evaluates both P on x and Q on x, whatever
\* P(x) returns.
C12_BothSidesEvaluated ==
    out.op \in {"and", "or"} => out.calls = <<P, Q>>

\* C12's case: P & Q was called on an x where P(x) is false, or P | Q on
\* an x where P(x) is true
C12_LeftDecides ==
    \/ out.op = "and" /\ ~Call(P, x, filters)
    \/ out.op = "or" /\ Call(P, x, filters)

\* C12 as the code evaluates: the left predicate is always evaluated, and
\* first; the right one is evaluated exactly when the left one does not
\* decide the result (P(x) true under AND, P(x) false under OR)
C12_RightOnlyWhenNeeded ==
    out.op \in {"and", "or"} =>
        out.calls = IF Call(P, x, filters) = (out.op = "and")
                    THEN <<P, Q>> ELSE <<P>>

====
